---- MODULE Spec2Model ----
(***************************************************************************)
(* Resumable batch crawler: the persisted progress store                   *)
(* (src/utils/stateManager.js) and the scheduling loop of crawl-batch.js   *)
(* (BatchCrawler.crawl / processCountryPortal).                            *)
(*                                                                         *)
(* The crawl is one logical thread.  `state` is the StateManager's         *)
(* in-memory object, `disk` the state file; every mutation of the store    *)
(* ends in saveState.  The process can be killed at any point and          *)
(* started again; a start reloads `state` from `disk`.                     *)
(***************************************************************************)
EXTENDS Integers, Sequences, FiniteSets, TLC

\* ---------------------------------------------------------------- bounds
NumCountries == 2
NumPages == 2
MaxFaults == 2
MaxArgLen == 2

\* ------------------------------------------------------ program constants
maxPagesPerCountry == 999
challengeRounds == 5

Countries == 1..NumCountries
Portals == {"masters", "bachelors"}

\* The site: listing page n of a unit shows study URLs n and n+1 (so two
\* neighbouring pages share a URL) and has a next-page link iff n < NumPages.
\* extractStudyUrlsFromSearchPage collects the links in a Set: no URL is
\* listed twice on one page.
extractStudyUrlsFromSearchPage(n) == <<n, n + 1>>
getNextPageUrl(n) == IF n < NumPages THEN n + 1 ELSE 0
Urls == 1..(NumPages + 1)

\* Errors thrown by a fetch, by the kind of message they carry.
Errors == {"blocked", "timeout"}

\* ------------------------------------------------------------ StateManager
createPortalState ==
  [status |-> "not_started", currentPage |-> 1, totalPagesDiscovered |-> 0,
   studyUrlsQueue |-> <<>>, scrapedStudyUrls |-> <<>>, programsExtracted |-> 0,
   lastError |-> "null", startedAt |-> "null", completedAt |-> "null"]

createFreshState == [currentPhase |-> "masters", countries |-> <<>>]

\* Mutant: the JSON.parse of a file that was cut short is not caught, and what
\* could be read of the file is used.
loadState_NoCatch(d) == IF d = <<>> THEN createFreshState ELSE d[1]

\* The file is <<>> when it does not exist, <<s>> when it holds the whole JSON
\* text of s, and <<s, "cut">> when it holds a proper prefix of that text, on
\* which JSON.parse throws and the catch starts fresh.
loadState(d) == IF Len(d) = 1 THEN d[1] ELSE createFreshState

saveState(s) == <<s>>

\* Lazy creation of a country's two portal states; not saved by itself.
getCountryState(s, c, p) ==
  IF c \in DOMAIN s.countries THEN s
  ELSE [s EXCEPT !.countries =
          @ @@ (c :> [masters |-> createPortalState,
                      bachelors |-> createPortalState])]

Unit(s, c, p) == s.countries[c][p]

SetUnit(s, c, p, u) == [s EXCEPT !.countries[c][p] = u]

includes(seq, x) == \E k \in 1..Len(seq) : seq[k] = x

\* Object.assign(countryState, updates); the caller saves.
updateCountryState(s, c, p, updates) ==
  LET s1 == getCountryState(s, c, p)
      u == Unit(s1, c, p)
  IN SetUnit(s1, c, p,
       [f \in DOMAIN u |-> IF f \in DOMAIN updates THEN updates[f] ELSE u[f]])

\* Mutant: the URL is pushed on the completed list without the includes test.
markStudyUrlScraped_AlwaysPush(s, c, p, url) ==
  LET s1 == getCountryState(s, c, p)
      u == Unit(s1, c, p)
      NotUrl(x) == x # url
      q == SelectSeq(u.studyUrlsQueue, NotUrl)
  IN SetUnit(s1, c, p, [u EXCEPT !.studyUrlsQueue = q,
                                 !.scrapedStudyUrls = Append(@, url)])

markStudyUrlScraped(s, c, p, url) ==
  LET s1 == getCountryState(s, c, p)
      u == Unit(s1, c, p)
      NotUrl(x) == x # url
      q == SelectSeq(u.studyUrlsQueue, NotUrl)
      done == IF includes(u.scrapedStudyUrls, url) THEN u.scrapedStudyUrls
              ELSE Append(u.scrapedStudyUrls, url)
  IN SetUnit(s1, c, p, [u EXCEPT !.studyUrlsQueue = q, !.scrapedStudyUrls = done])

\* Mutant: the enqueue forgets to test the completed list.
addStudyUrlsToQueue_NoScrapedTest(s, c, p, urls) ==
  LET s1 == getCountryState(s, c, p)
      u == Unit(s1, c, p)
      IsNew(x) == ~includes(u.studyUrlsQueue, x)
      newUrls == SelectSeq(urls, IsNew)
  IN SetUnit(s1, c, p, [u EXCEPT !.studyUrlsQueue = @ \o newUrls])

addStudyUrlsToQueue(s, c, p, urls) ==
  LET s1 == getCountryState(s, c, p)
      u == Unit(s1, c, p)
      IsNew(x) == ~includes(u.scrapedStudyUrls, x) /\ ~includes(u.studyUrlsQueue, x)
      newUrls == SelectSeq(urls, IsNew)
  IN SetUnit(s1, c, p, [u EXCEPT !.studyUrlsQueue = @ \o newUrls])

\* Mutant: every unit that was ever started counts as completed.
isCompleted_AnyStarted(s, c, p) ==
  Unit(getCountryState(s, c, p), c, p).status # "not_started"

\* Mutant: the status is compared with a value no unit ever has.
isCompleted_Never(s, c, p) == Unit(getCountryState(s, c, p), c, p).status = "complete"

isCompleted(s, c, p) == Unit(getCountryState(s, c, p), c, p).status = "completed"

setCurrentPhase(s, phase) == [s EXCEPT !.currentPhase = phase]

\* ------------------------------------------------------------------- state
VARIABLES
  state,      \* StateManager.state of the running process
  disk,       \* state/crawler-state.json
  pc,         \* position of the process
  phaseLoop,  \* which of crawl()'s two loops is running ("none" before)
  cIdx,       \* loop index over the countries
  loc,        \* locals of processCountryPortal
  faults,     \* number of failed fetches and kills so far
  lastExit,   \* history: how the previous process ended
  failed,     \* history: the item URLs whose scrape failed, per unit
  found,      \* history: units this run found in_progress/error when it started
  entered,    \* history: units this run has marked in_progress
  esc,        \* the fetch of one URL in progress, and the steps it has tried
  shown,      \* what the last run of show-progress.js printed
  cap,        \* the captcha step of PlaywrightBaseCrawler.fetchPage in progress
  req,        \* BaseCrawler.fetchPage: one call with its retries
  bc,         \* BaseCrawler.crawl: queue, visited set, counter and what it fetched
  det,        \* CloudflareDetector.detectChallengeLoop: what the page shows and the result
  nav         \* HardenedPlaywrightScraper.navigateWithEvasion: one call in progress

\* The variables of the programs that run beside crawl-batch.js.
tools == <<shown, cap, req, bc, det, nav>>

vars == <<state, disk, pc, phaseLoop, cIdx, loc, faults, lastExit, failed, found,
          entered, esc, tools>>

NoLoc ==
  [portal |-> "none", currentPageNum |-> 0, searchUrl |-> 0, hasMorePages |-> FALSE,
   pagesProcessed |-> 0, result |-> <<>>, newUrls |-> <<>>, i |-> 0, error |-> "null"]

\* ------------------------------------------------- the fetch of one URL
\* What a loaded page shows to the checks made on it: a challenge title
\* ("Just a moment", "Attention Required"), a block marker in the content
\* ("Access denied", "blocked"), a challenge widget or challenge URL, and
\* "Ray ID:" together with "Cloudflare" in the content.
Snapshots == [title : BOOLEAN, blocked : BOOLEAN, widget : BOOLEAN, ray : BOOLEAN]

\* CloudflareDetector.detectChallenge: the type it returns.
detectChallenge(s) ==
  IF s.blocked \/ s.ray THEN "blocked"
  ELSE IF s.widget THEN "challenge"
  ELSE IF s.title THEN "challenge"
  ELSE "none"

\* The checks written out in _crawlSearchPageWithBrowser and
\* _scrapeStudyPageWithBrowser: the title is tested first, the content after.
inlineCheck(s) ==
  IF s.title THEN "challenge"
  ELSE IF s.blocked THEN "blocked"
  ELSE "clear"

\* crawlSearchPage tries chromium and falls back to webkit; scrapeStudyPage
\* tries webkit and falls back to chromium.
Kinds == {"search", "study"}
firstBrowser(kind) == IF kind = "search" THEN "chromium" ELSE "webkit"
secondBrowser(kind) == IF kind = "search" THEN "webkit" ELSE "chromium"

\* error.message.includes('Cloudflare'), by the kind of error thrown.
includesCloudflare(e) == e \in {"challenge", "blocked", "switch"}

\* The browsers and the modes a step of a fetch can be of.
Browsers == {"chromium", "webkit"}
Modes == {"headless", "solve", "visible"}

\* No fetch in progress.  tried lists the steps started for the URL, each
\* with the browser, the mode and what the step met.
NoEsc ==
  [kind |-> "none", pc |-> "idle", browser |-> "none", snap |-> <<>>, i |-> 0,
   tried |-> <<>>, error |-> "null", result |-> "null",
   visibleOpen |-> 0]

\* The variables of crawl-batch.js, which the other programs leave alone.
batch == <<state, disk, pc, phaseLoop, cIdx, loc, faults, lastExit, failed, found,
           entered, esc>>

\* No fetchPage is in its captcha step.
NoCap ==
  [pc |-> "idle", widget |-> FALSE, title |-> FALSE, polls |-> 0,
   solved |-> "none", why |-> "none", simulated |-> FALSE, error |-> "null"]

\* No BaseCrawler has been constructed.
NoReq ==
  [pc |-> "none", maxRetries |-> 0, retryCount |-> 0, requests |-> 0,
   waits |-> <<>>, log |-> <<>>, outcome |-> "none"]

\* BaseCrawler's constructor: the queue holds the target URL (URL 1).
NoBc ==
  [pc |-> "loop", urlsToVisit |-> <<1>>, visitedUrls |-> {}, crawledCount |-> 0,
   currentUrl |-> 0, fetched |-> <<>>, skipped |-> 0]

\* detectChallengeLoop has not been called.
NoDet == [obs |-> <<>>, result |-> <<>>]

\* navigateWithEvasion has not been called.
NoNav ==
  [pc |-> "none", detectChallenge |-> FALSE, waitForCloudflare |-> FALSE,
   maxRetries |-> 0, attempt |-> 0, navigations |-> 0, lastDetect |-> "unset",
   rounds |-> 0, waits |-> <<>>, lastError |-> "null"]

\* No progress command has run yet.
NoSummary == [phase |-> "none", countries |-> <<>>]

InitTools ==
  /\ shown = NoSummary
  /\ cap = NoCap
  /\ req = NoReq
  /\ bc = NoBc
  /\ det = NoDet
  /\ nav = NoNav

Init ==
  /\ disk = <<>>
  /\ state = createFreshState
  /\ pc = "idle"
  /\ phaseLoop = "none"
  /\ cIdx = 1
  /\ loc = NoLoc
  /\ faults = 0
  /\ lastExit = "none"
  /\ failed = {}
  /\ found = {}
  /\ entered = {}
  /\ esc = NoEsc
  /\ InitTools

\* ------------------------------------------------------ process start/stop
\* `node crawl-batch.js`: new BatchCrawler() constructs the StateManager,
\* which loads the state file; then crawl() runs.
Start ==
  /\ pc \in {"idle", "done"}
  /\ state' = loadState(disk)
  /\ pc' = "crawl"
  /\ phaseLoop' = "none"
  /\ cIdx' = 1
  /\ loc' = NoLoc
  /\ found' = {<<c, p>> \in Countries \X Portals :
                 /\ c \in DOMAIN loadState(disk).countries
                 /\ Unit(loadState(disk), c, p).status \in {"in_progress", "error"}}
  /\ entered' = {}
  /\ UNCHANGED <<disk, faults, lastExit, failed, esc, tools>>

\* An external kill (Ctrl+C, crash) at any point of a running process: its
\* memory is gone, the state file stays (state = loadState(disk) whenever the
\* process is between two steps, so `state` is left as it is).
Kill ==
  /\ pc \notin {"idle", "done"}
  /\ faults < MaxFaults
  /\ faults' = faults + 1
  /\ pc' = "idle"
  /\ phaseLoop' = "none"
  /\ cIdx' = 1
  /\ loc' = NoLoc
  /\ lastExit' = "killed"
  /\ found' = {}
  /\ entered' = {}
  /\ UNCHANGED <<state, disk, failed, esc, tools>>

\* ------------------------------------------------------------------ crawl()
\* The two `if (getCurrentPhase() === ...)` tests on entry.
EnterPhase ==
  /\ pc = "crawl"
  /\ phaseLoop = "none"
  /\ phaseLoop' = IF state.currentPhase = "masters" THEN "masters" ELSE "bachelors"
  /\ cIdx' = 1
  /\ UNCHANGED <<state, disk, pc, loc, faults, lastExit, failed,
                 found, entered, esc, tools>>

\* Mutant: the phase is advanced after the first country's masters unit.
AdvancePhase_Early ==
  /\ pc = "crawl"
  /\ phaseLoop = "masters"
  /\ cIdx > 1
  /\ state' = setCurrentPhase(state, "bachelors")
  /\ disk' = saveState(state')
  /\ phaseLoop' = "bachelors"
  /\ cIdx' = 1
  /\ UNCHANGED <<pc, loc, faults, lastExit, failed, found, entered, esc, tools>>

\* End of the masters loop: setCurrentPhase("bachelors"), then the second
\* test finds the phase to be bachelors and the bachelors loop begins.
AdvancePhase ==
  /\ pc = "crawl"
  /\ phaseLoop = "masters"
  /\ cIdx > NumCountries
  /\ state' = setCurrentPhase(state, "bachelors")
  /\ disk' = saveState(state')
  /\ phaseLoop' = "bachelors"
  /\ cIdx' = 1
  /\ UNCHANGED <<pc, loc, faults, lastExit, failed, found, entered, esc, tools>>

\* Mutant: crawl() also leaves its loops as soon as a unit has recorded an
\* error or an item has failed.
CrawlEnd_AfterError ==
  /\ pc = "crawl"
  /\ \/ phaseLoop = "bachelors" /\ cIdx > NumCountries
     \/ failed # {}
     \/ \E c \in DOMAIN state.countries, p \in Portals :
          Unit(state, c, p).lastError # "null"
  /\ pc' = "done"
  /\ lastExit' = "clean"
  /\ UNCHANGED <<state, disk, phaseLoop, cIdx, loc, faults, failed,
                 found, entered, esc, tools>>

\* Mutant: at the end of the bachelors loop the phase is set to masters for
\* the next run.
CrawlEnd_ResetsPhase ==
  /\ pc = "crawl"
  /\ phaseLoop = "bachelors"
  /\ cIdx > NumCountries
  /\ state' = setCurrentPhase(state, "masters")
  /\ disk' = saveState(state')
  /\ pc' = "done"
  /\ lastExit' = "clean"
  /\ UNCHANGED <<phaseLoop, cIdx, loc, faults, failed, found, entered, esc, tools>>

\* End of the bachelors loop: browsers closed, final summary, process ends.
CrawlEnd ==
  /\ pc = "crawl"
  /\ phaseLoop = "bachelors"
  /\ cIdx > NumCountries
  /\ pc' = "done"
  /\ lastExit' = "clean"
  /\ UNCHANGED <<state, disk, phaseLoop, cIdx, loc, faults, failed,
                 found, entered, esc, tools>>

\* ------------------------------------------------- processCountryPortal()
\* Head of the `while (hasMorePages && pagesProcessed < maxPagesPerCountry)`.
LoopPc(hasMorePages, pagesProcessed) ==
  IF hasMorePages /\ pagesProcessed < maxPagesPerCountry THEN "page" ELSE "finish"

\* Entry, for a unit already completed: return at once.
SkipCompleted ==
  /\ pc = "crawl"
  /\ phaseLoop \in Portals
  /\ cIdx <= NumCountries
  /\ isCompleted(state, cIdx, phaseLoop)
  /\ state' = getCountryState(state, cIdx, phaseLoop)
  /\ cIdx' = cIdx + 1
  /\ UNCHANGED <<disk, pc, phaseLoop, loc, faults, lastExit, failed,
                 found, entered, esc, tools>>

\* Mutant: the saved cursor is ignored; every entry starts at page 1.
ResumePage_FromStart(s, c, p) ==
  LET u == Unit(getCountryState(s, c, p), c, p)
  IN IF u.currentPage # 0 THEN 1 ELSE 1

\* `let currentPageNum = countryState.currentPage || 1`: the listing page at
\* which processCountryPortal starts unit (c, p) on store s.
ResumePage(s, c, p) ==
  LET u == Unit(getCountryState(s, c, p), c, p)
  IN IF u.currentPage # 0 THEN u.currentPage ELSE 1

\* Mutant: the entry does not test whether the unit is completed.
BeginUnit_NoSkipTest ==
  /\ pc = "crawl"
  /\ phaseLoop \in Portals
  /\ cIdx <= NumCountries
  /\ LET s1 == getCountryState(state, cIdx, phaseLoop)
         u == Unit(s1, cIdx, phaseLoop)
         started == IF u.startedAt # "null" THEN u.startedAt ELSE "set"
         page == ResumePage(s1, cIdx, phaseLoop)
     IN /\ state' = updateCountryState(s1, cIdx, phaseLoop,
                      [status |-> "in_progress", startedAt |-> started])
        /\ loc' = [NoLoc EXCEPT !.portal = phaseLoop, !.currentPageNum = page,
                                !.searchUrl = page, !.hasMorePages = TRUE]
        /\ pc' = LoopPc(TRUE, 0)
  /\ disk' = saveState(state')
  /\ UNCHANGED <<phaseLoop, cIdx, faults, lastExit, failed, found, esc, tools>>
  /\ entered' = entered \cup {<<cIdx, phaseLoop>>}

\* Entry otherwise: mark in_progress, read the persisted page cursor.
BeginUnit ==
  /\ pc = "crawl"
  /\ phaseLoop \in Portals
  /\ cIdx <= NumCountries
  /\ ~isCompleted(state, cIdx, phaseLoop)
  /\ LET s1 == getCountryState(state, cIdx, phaseLoop)
         u == Unit(s1, cIdx, phaseLoop)
         started == IF u.startedAt # "null" THEN u.startedAt ELSE "set"
         page == ResumePage(s1, cIdx, phaseLoop)
     IN /\ state' = updateCountryState(s1, cIdx, phaseLoop,
                      [status |-> "in_progress", startedAt |-> started])
        /\ loc' = [NoLoc EXCEPT !.portal = phaseLoop, !.currentPageNum = page,
                                !.searchUrl = page, !.hasMorePages = TRUE]
        /\ pc' = LoopPc(TRUE, 0)
  /\ disk' = saveState(state')
  /\ UNCHANGED <<phaseLoop, cIdx, faults, lastExit, failed, found, esc, tools>>
  /\ entered' = entered \cup {<<cIdx, phaseLoop>>}

\* `result = await this.crawlSearchPage(searchUrl, ...)`: the fetch is issued.
SearchFetch ==
  /\ pc = "page"
  /\ loc' = [loc EXCEPT !.result = <<>>, !.error = "null"]
  /\ pc' = "list_wait"
  /\ UNCHANGED <<state, disk, phaseLoop, cIdx, faults, lastExit,
                 failed, found, entered, esc, tools>>

\* Mutant: the URLs already scraped are not filtered out.
AfterResult_NoFilter(r) ==
  /\ loc' = [loc EXCEPT !.result = <<r>>, !.newUrls = r.studyUrls, !.i = 1]
  /\ pc' = IF Len(r.studyUrls) > 0 THEN "item" ELSE "page_done"
  /\ UNCHANGED <<state, disk, phaseLoop, cIdx, lastExit, failed,
                 found, entered, esc, tools>>

\* After a result: filter out the URLs already scraped.
AfterResult(r) ==
  LET u == Unit(getCountryState(state, cIdx, phaseLoop), cIdx, phaseLoop)
      NotScraped(x) == ~includes(u.scrapedStudyUrls, x)
      newUrls == SelectSeq(r.studyUrls, NotScraped)
  IN /\ loc' = [loc EXCEPT !.result = <<r>>, !.newUrls = newUrls, !.i = 1]
     /\ pc' = IF Len(newUrls) > 0 THEN "item" ELSE "page_done"
     /\ UNCHANGED <<state, disk, phaseLoop, cIdx, lastExit, failed,
                    found, entered, esc, tools>>

\* crawlSearchPage returns the page's study URLs and next-page link.
SearchLinks ==
  /\ pc = "list_wait"
  /\ AfterResult([studyUrls |-> extractStudyUrlsFromSearchPage(loc.searchUrl),
                  nextPageUrl |-> getNextPageUrl(loc.searchUrl)])
  /\ UNCHANGED faults

\* crawlSearchPage found no study links: it returns an empty result.
SearchNoLinks ==
  /\ pc = "list_wait"
  /\ faults < MaxFaults
  /\ faults' = faults + 1
  /\ AfterResult([studyUrls |-> <<>>, nextPageUrl |-> 0])

\* Mutant: the page catch goes on to the following page whatever happened.
SearchThrow_Continue ==
  /\ pc = "list_wait"
  /\ faults < MaxFaults
  /\ faults' = faults + 1
  /\ \E e \in Errors :
       /\ state' = updateCountryState(state, cIdx, phaseLoop, [lastError |-> e])
       /\ loc' = [loc EXCEPT !.error = e,
                             !.searchUrl = @ + 1,
                             !.currentPageNum = @ + 1,
                             !.pagesProcessed = @ + 1]
       /\ pc' = LoopPc(loc.hasMorePages, loc.pagesProcessed + 1)
  /\ disk' = saveState(state')
  /\ UNCHANGED <<phaseLoop, cIdx, lastExit, failed, found, entered, esc, tools>>

\* crawlSearchPage throws: the page loop's catch records the error and,
\* having no result to take a next-page link from, ends the loop.
SearchThrow ==
  /\ pc = "list_wait"
  /\ faults < MaxFaults
  /\ faults' = faults + 1
  /\ \E e \in Errors :
       /\ state' = updateCountryState(state, cIdx, phaseLoop, [lastError |-> e])
       /\ IF loc.result # <<>> /\ loc.result[1].nextPageUrl # 0
          THEN /\ loc' = [loc EXCEPT !.error = e,
                                     !.searchUrl = loc.result[1].nextPageUrl,
                                     !.currentPageNum = @ + 1,
                                     !.pagesProcessed = @ + 1]
               /\ pc' = LoopPc(loc.hasMorePages, loc.pagesProcessed + 1)
          ELSE /\ loc' = [loc EXCEPT !.error = e, !.hasMorePages = FALSE]
               /\ pc' = LoopPc(FALSE, loc.pagesProcessed)
  /\ disk' = saveState(state')
  /\ UNCHANGED <<phaseLoop, cIdx, lastExit, failed, found, entered, esc, tools>>

\* `await this.scrapeStudyPage(url, ...)` for newUrls[i]: the fetch is issued.
ItemFetch ==
  /\ pc = "item"
  /\ pc' = "item_wait"
  /\ UNCHANGED <<state, disk, phaseLoop, cIdx, loc, faults, lastExit,
                 failed, found, entered, esc, tools>>

\* Mutant: the `for` loop over the page's URLs ends after its first URL.
NextItemPc_SkipRest == "page_done"

\* The `for` loop's step to the next URL of the page.
NextItemPc == IF loc.i + 1 <= Len(loc.newUrls) THEN "item" ELSE "page_done"

\* Mutant: the URL is marked in memory only; the state file is not written.
ItemScraped_NoSave ==
  /\ pc = "item_wait"
  /\ state' = markStudyUrlScraped(state, cIdx, phaseLoop, loc.newUrls[loc.i])
  /\ pc' = "count"
  /\ UNCHANGED <<disk, phaseLoop, cIdx, loc, faults, lastExit, failed,
                 found, entered, esc, tools>>

\* scrapeStudyPage returned: the URL is marked scraped (and saved).
ItemScraped ==
  /\ pc = "item_wait"
  /\ state' = markStudyUrlScraped(state, cIdx, phaseLoop, loc.newUrls[loc.i])
  /\ disk' = saveState(state')
  /\ pc' = "count"
  /\ UNCHANGED <<phaseLoop, cIdx, loc, faults, lastExit, failed,
                 found, entered, esc, tools>>

\* Mutant: the counter is raised by two for a scraped item.
ItemCount_Double ==
  /\ pc = "count"
  /\ LET currentCount == Unit(getCountryState(state, cIdx, phaseLoop),
                              cIdx, phaseLoop).programsExtracted
     IN state' = updateCountryState(state, cIdx, phaseLoop,
                                    [programsExtracted |-> currentCount + 2])
  /\ disk' = saveState(state')
  /\ loc' = [loc EXCEPT !.i = @ + 1]
  /\ pc' = NextItemPc
  /\ UNCHANGED <<phaseLoop, cIdx, faults, lastExit, failed, found,
                 entered, esc, tools>>

\* ... then programsExtracted is incremented (and saved), then the delay.
ItemCount ==
  /\ pc = "count"
  /\ LET currentCount == Unit(getCountryState(state, cIdx, phaseLoop),
                              cIdx, phaseLoop).programsExtracted
     IN state' = updateCountryState(state, cIdx, phaseLoop,
                                    [programsExtracted |-> currentCount + 1])
  /\ disk' = saveState(state')
  /\ loc' = [loc EXCEPT !.i = @ + 1]
  /\ pc' = NextItemPc
  /\ UNCHANGED <<phaseLoop, cIdx, faults, lastExit, failed, found,
                 entered, esc, tools>>

\* Mutant: the catch only logs the error; the URL is not marked.
ItemFailed_NoMark ==
  /\ pc = "item_wait"
  /\ faults < MaxFaults
  /\ faults' = faults + 1
  /\ loc' = [loc EXCEPT !.i = @ + 1]
  /\ pc' = NextItemPc
  /\ failed' = failed \cup {<<cIdx, phaseLoop, loc.newUrls[loc.i]>>}
  /\ UNCHANGED <<state, disk, phaseLoop, cIdx, lastExit, found, entered, esc, tools>>

\* scrapeStudyPage threw on every fallback: "mark as scraped anyway".
ItemFailed ==
  /\ pc = "item_wait"
  /\ faults < MaxFaults
  /\ faults' = faults + 1
  /\ state' = markStudyUrlScraped(state, cIdx, phaseLoop, loc.newUrls[loc.i])
  /\ disk' = saveState(state')
  /\ loc' = [loc EXCEPT !.i = @ + 1]
  /\ pc' = NextItemPc
  /\ UNCHANGED <<phaseLoop, cIdx, lastExit, found, entered, esc, tools>>
  /\ failed' = failed \cup {<<cIdx, phaseLoop, loc.newUrls[loc.i]>>}

\* All items of the page handled: save the page cursor, then follow the
\* next-page link or end the loop.
PageDone ==
  /\ pc = "page_done"
  /\ LET u == Unit(getCountryState(state, cIdx, phaseLoop), cIdx, phaseLoop)
         total == IF loc.currentPageNum > u.totalPagesDiscovered
                  THEN loc.currentPageNum ELSE u.totalPagesDiscovered
         r == loc.result[1]
     IN /\ state' = updateCountryState(state, cIdx, phaseLoop,
                      [currentPage |-> loc.currentPageNum,
                       totalPagesDiscovered |-> total])
        /\ IF r.nextPageUrl # 0
           THEN /\ loc' = [loc EXCEPT !.searchUrl = r.nextPageUrl,
                                      !.currentPageNum = @ + 1,
                                      !.pagesProcessed = @ + 1]
                /\ pc' = LoopPc(loc.hasMorePages, loc.pagesProcessed + 1)
           ELSE /\ loc' = [loc EXCEPT !.hasMorePages = FALSE]
                /\ pc' = LoopPc(FALSE, loc.pagesProcessed)
  /\ disk' = saveState(state')
  /\ UNCHANGED <<phaseLoop, cIdx, faults, lastExit, failed, found,
                 entered, esc, tools>>

\* Mutant: the unit returns without being marked completed.
FinishUnit_NoComplete ==
  /\ pc = "finish"
  /\ cIdx' = cIdx + 1
  /\ pc' = "crawl"
  /\ UNCHANGED <<state, disk, phaseLoop, loc, faults, lastExit,
                 failed, found, entered, esc, tools>>

\* After the page loop: "Mark as completed", and return to crawl()'s loop.
FinishUnit ==
  /\ pc = "finish"
  /\ state' = updateCountryState(state, cIdx, phaseLoop,
                                 [status |-> "completed", completedAt |-> "set"])
  /\ disk' = saveState(state')
  /\ cIdx' = cIdx + 1
  /\ pc' = "crawl"
  /\ UNCHANGED <<phaseLoop, loc, faults, lastExit, failed, found,
                 entered, esc, tools>>

Next ==
  \/ Start
  \/ Kill
  \/ EnterPhase
  \/ AdvancePhase
  \/ CrawlEnd
  \/ SkipCompleted
  \/ BeginUnit
  \/ SearchFetch
  \/ SearchLinks
  \/ SearchNoLinks
  \/ SearchThrow
  \/ ItemFetch
  \/ ItemScraped
  \/ ItemCount
  \/ ItemFailed
  \/ PageDone
  \/ FinishUnit

Spec == Init /\ [][Next]_vars

\* ------------------------------------------- the store used on its own
\* A client of StateManager applying its mutators in any order to the two
\* units of one country (units of different countries share no field).
StoreCountries == {1}
StoreUrls == {1, 2}
StoreArgs == UNION {[1..n -> StoreUrls] : n \in 0..MaxArgLen}
StoreUpdates ==
  {[status |-> "in_progress"], [status |-> "completed"], [lastError |-> "timeout"]}

StoreFrame ==
  UNCHANGED <<pc, phaseLoop, cIdx, loc, faults, lastExit, failed,
              found, entered, esc, tools>>

StoreMark ==
  /\ \E c \in StoreCountries, p \in Portals, url \in StoreUrls :
       state' = markStudyUrlScraped(state, c, p, url)
  /\ disk' = saveState(state')
  /\ StoreFrame

StoreAdd ==
  /\ \E c \in StoreCountries, p \in Portals, urls \in StoreArgs :
       state' = addStudyUrlsToQueue(state, c, p, urls)
  /\ disk' = saveState(state')
  /\ StoreFrame

StoreUpdate ==
  /\ \E c \in StoreCountries, p \in Portals, updates \in StoreUpdates :
       state' = updateCountryState(state, c, p, updates)
  /\ disk' = saveState(state')
  /\ StoreFrame

NextStore ==
  \/ StoreMark
  \/ StoreAdd
  \/ StoreUpdate

SpecStore == Init /\ [][NextStore]_vars

\* ------------------------------- a crawl over a state file with a queue
\* The crawler itself never calls addStudyUrlsToQueue; a state file whose
\* unit has queued URLs comes from the store's own API (or from the edits
\* of the state file that the batch README describes).  The crawl then
\* starts from such a file.
InitQueued ==
  /\ \E url \in Urls :
       state = addStudyUrlsToQueue(
                 updateCountryState(createFreshState, 1, "masters",
                                    [status |-> "in_progress"]),
                 1, "masters", <<url>>)
  /\ disk = saveState(state)
  /\ pc = "idle"
  /\ phaseLoop = "none"
  /\ cIdx = 1
  /\ loc = NoLoc
  /\ faults = 0
  /\ lastExit = "none"
  /\ failed = {}
  /\ found = {}
  /\ entered = {}
  /\ esc = NoEsc
  /\ InitTools

SpecQueued == InitQueued /\ [][Next]_vars

\* --------------------------------- one URL through the fallback ladder
\* crawlSearchPage(url) and scrapeStudyPage(url) on their own: the site's
\* answer to every step is any of the answers the code distinguishes.
FetchFrame ==
  UNCHANGED <<state, disk, pc, phaseLoop, cIdx, loc, faults, lastExit, failed,
              found, entered, tools>>

\* The step (browser, mode) is added to the steps tried, with what it met.
Tried(mode, met) ==
  Append(esc.tried, [browser |-> esc.browser, mode |-> mode, met |-> met])

\* Where _crawlSearchPageWithBrowser / _scrapeStudyPageWithBrowser goes on
\* once the page has passed the title and content checks.
ContentPc == IF esc.kind = "search" THEN "links" ELSE "hero"

\* crawlSearchPage / scrapeStudyPage is called for a URL.
FetchBegin ==
  /\ esc.pc \in {"idle", "returned", "thrown"}
  /\ \E kind \in Kinds :
       esc' = [NoEsc EXCEPT !.kind = kind, !.pc = "goto",
                            !.browser = firstBrowser(kind)]
  /\ FetchFrame

\* page.goto in the headless browser throws (navigation timeout).
GotoFails ==
  /\ esc.pc = "goto"
  /\ esc' = [esc EXCEPT !.tried = Tried("headless", "timeout"),
                        !.error = "timeout", !.pc = "caught"]
  /\ FetchFrame

\* page.goto in the headless browser loads a page: the title is tested for
\* a challenge, then the content for a block.
GotoLoads ==
  /\ esc.pc = "goto"
  /\ \E s \in Snapshots :
       esc' = IF s.title
              THEN [esc EXCEPT !.tried = Tried("headless", inlineCheck(s)),
                               !.snap = <<s>>, !.i = 0, !.pc = "solving"]
              ELSE IF s.blocked
              THEN [esc EXCEPT !.tried = Tried("headless", inlineCheck(s)),
                               !.snap = <<s>>, !.error = "blocked",
                               !.pc = "caught"]
              ELSE [esc EXCEPT !.tried = Tried("headless", inlineCheck(s)),
                               !.snap = <<s>>, !.pc = ContentPc]
  /\ FetchFrame

\* One round of the `for (let i = 0; i < 5; i++)` wait on a challenge title:
\* the title has cleared (the content read before the wait is then tested
\* for a block), or it has not and the next round or the throw follows.
Solve ==
  /\ esc.pc = "solving"
  /\ \E cleared \in BOOLEAN :
       esc' = IF cleared /\ esc.snap[1].blocked
              THEN [esc EXCEPT !.tried = Tried("solve", "clear"),
                               !.error = "blocked", !.pc = "caught"]
              ELSE IF cleared
              THEN [esc EXCEPT !.tried = Tried("solve", "clear"),
                               !.pc = ContentPc]
              ELSE IF esc.i + 1 < challengeRounds
              THEN [esc EXCEPT !.i = @ + 1]
              ELSE [esc EXCEPT !.tried = Tried("solve", "challenge"),
                               !.error = "challenge", !.pc = "caught"]
  /\ FetchFrame

\* The wait for the study links of a search page: they load; or they do not
\* and a "Try again" button is there (the page is closed and a visible
\* browser is launched); or they do not and there is no button (an empty
\* result is returned).
Links ==
  /\ esc.pc = "links"
  /\ \E met \in {"links", "retry_button", "nothing"} :
       esc' = IF met = "links"
              THEN [esc EXCEPT !.result = "links", !.pc = "returned"]
              ELSE IF met = "retry_button"
              THEN [esc EXCEPT !.visibleOpen = @ + 1, !.pc = "visible"]
              ELSE [esc EXCEPT !.result = "empty", !.pc = "returned"]
  /\ FetchFrame

\* The same engine launched with headless: false loads the URL: its goto
\* throws, which leaves the block at once; or the links are there; or they
\* are not ("switching browser engine" is thrown).  The last two close the
\* visible context and browser first.
Visible ==
  /\ esc.pc = "visible"
  /\ \E met \in {"timeout", "clear", "challenge"} :
       esc' = IF met = "timeout"
              THEN [esc EXCEPT !.tried = Tried("visible", met),
                               !.error = "timeout", !.pc = "caught"]
              ELSE IF met = "clear"
              THEN [esc EXCEPT !.tried = Tried("visible", met),
                               !.visibleOpen = @ - 1,
                               !.result = "links", !.pc = "returned"]
              ELSE [esc EXCEPT !.tried = Tried("visible", met),
                               !.visibleOpen = @ - 1,
                               !.error = "switch", !.pc = "caught"]
  /\ FetchFrame

\* waitForSelector("#Hero") and ("#QuickFacts") on a study page: both are
\* there and the data is extracted, or a wait times out.
Hero ==
  /\ esc.pc = "hero"
  /\ \E found_ \in BOOLEAN :
       esc' = IF found_
              THEN [esc EXCEPT !.result = "data", !.pc = "returned"]
              ELSE [esc EXCEPT !.error = "timeout", !.pc = "caught"]
  /\ FetchFrame

\* Mutant: the catch switches to the other browser on every error whose
\* message includes 'Cloudflare', whichever browser threw it.
Catch_AlwaysSwitch ==
  /\ esc.pc = "caught"
  /\ esc' = IF includesCloudflare(esc.error)
            THEN [esc EXCEPT !.browser = IF @ = "chromium" THEN "webkit"
                                         ELSE "chromium",
                             !.snap = <<>>, !.i = 0, !.error = "null",
                             !.pc = "goto"]
            ELSE [esc EXCEPT !.pc = "thrown"]
  /\ FetchFrame

\* The catch of crawlSearchPage / scrapeStudyPage: an error of the first
\* browser whose message includes 'Cloudflare' leads to the second browser;
\* any other error, and every error of the second browser, is thrown on.
Catch ==
  /\ esc.pc = "caught"
  /\ esc' = IF esc.browser = firstBrowser(esc.kind) /\ includesCloudflare(esc.error)
            THEN [esc EXCEPT !.browser = secondBrowser(esc.kind), !.snap = <<>>,
                             !.i = 0, !.error = "null", !.pc = "goto"]
            ELSE [esc EXCEPT !.pc = "thrown"]
  /\ FetchFrame

\* A step of a fetch in progress.
FetchStep ==
  \/ GotoFails
  \/ GotoLoads
  \/ Solve
  \/ Links
  \/ Visible
  \/ Hero
  \/ Catch

NextFetch ==
  \/ FetchBegin
  \/ FetchStep

SpecFetch == Init /\ [][NextFetch]_vars

\* Every await of a fetch in progress comes back (each has a timeout).
SpecFetchFair == SpecFetch /\ WF_vars(FetchStep)

\* ------------------------------------------------------------- vocabulary
UnitsOf(s) == {<<c, p>> \in Countries \X Portals : c \in DOMAIN s.countries}

Persisted == loadState(disk)

\* The step issues the fetch of a listing page of unit (c, p).
FetchesListing(c, p) ==
  pc = "page" /\ pc' = "list_wait" /\ cIdx = c /\ phaseLoop = p

\* The step issues the fetch of item page url of unit (c, p).
FetchesItem(c, p, url) ==
  /\ pc = "item" /\ pc' = "item_wait" /\ cIdx = c /\ phaseLoop = p
  /\ loc.newUrls[loc.i] = url

\* processCountryPortal returns after its page loop.
UnitReturns == pc = "finish" /\ pc' = "crawl"

\* ------------------------------------------------------------------ claims

\* C1: in every unit, after any sequence of store mutations, no URL is both
\* in the pending queue and in the completed list (in memory and on disk).
C1_PendingCompletedDisjoint ==
  \A s \in {state, Persisted} : \A cp \in UnitsOf(s) :
    LET u == Unit(s, cp[1], cp[2])
    IN \A url \in StoreUrls :
         ~(includes(u.studyUrlsQueue, url) /\ includes(u.scrapedStudyUrls, url))

\* A unit in progress holds a queued URL next to a completed one.
C1_Witness ==
  /\ 1 \in DOMAIN state.countries
  /\ LET u == Unit(state, 1, "masters")
     IN /\ u.scrapedStudyUrls = <<1>>
        /\ u.studyUrlsQueue = <<2>>
        /\ u.status = "in_progress"

\* The unit the running process is working on.
CurUnit(s) == Unit(s, cIdx, phaseLoop)

\* scrapeStudyPage has thrown for newUrls[i] and the catch has run.
ItemFailedStep == pc = "item_wait" /\ pc' # "idle" /\ faults' = faults + 1

\* C2: an item URL whose scrape fails on every fallback is, by that step,
\* in the saved completed list and not in the pending queue, and no item
\* fetch is ever issued again for a URL that failed.
C2_FailedItemIsDoneForGood ==
  [][ /\ ItemFailedStep =>
           /\ includes(CurUnit(state').scrapedStudyUrls, loc.newUrls[loc.i])
           /\ ~includes(CurUnit(state').studyUrlsQueue, loc.newUrls[loc.i])
           /\ disk' = saveState(state')
      /\ \A f \in failed : ~FetchesItem(f[1], f[2], f[3])
    ]_vars

\* A URL failed, a listing page fetched later shows it again, and it was
\* left out of the URLs to scrape.
C2_Witness ==
  /\ pc \in {"item", "page_done"}
  /\ loc.result # <<>>
  /\ \E f \in failed :
       /\ f[1] = cIdx /\ f[2] = phaseLoop
       /\ includes(loc.result[1].studyUrls, f[3])
       /\ ~includes(loc.newUrls, f[3])
       /\ includes(CurUnit(state).scrapedStudyUrls, f[3])
       /\ ~includes(CurUnit(state).studyUrlsQueue, f[3])

\* C3: a unit is marked completed only when the last listing fetch succeeded,
\* gave no next-page link, and the pending queue is empty.
C3_CompletedOnlyAfterLastPage ==
  [][ UnitReturns /\ CurUnit(state').status = "completed" =>
        /\ loc.error = "null"
        /\ loc.result # <<>>
        /\ loc.result[1].nextPageUrl = 0
        /\ CurUnit(state').studyUrlsQueue = <<>>
    ]_vars

\* C4: when the unit's listing fetch ended in a block, the unit returns with
\* the block in lastError and with status in_progress.
C4_BlockedUnitStaysInProgress ==
  [][ UnitReturns /\ loc.error = "blocked" =>
        /\ CurUnit(state').lastError = "blocked"
        /\ CurUnit(state').status = "in_progress"
        /\ disk' = saveState(state')
    ]_vars

C6_PhaseBarrier ==
  \A s \in {state, Persisted} : \A cp \in UnitsOf(s) :
    (cp[2] = "bachelors" /\ Unit(s, cp[1], cp[2]).status # "not_started")
      => \A c \in Countries :
           /\ c \in DOMAIN s.countries
           /\ Unit(s, c, "masters").status = "completed"

\* The second country's bachelors unit is being crawled.
C6_Witness ==
  /\ pc = "item"
  /\ phaseLoop = "bachelors"
  /\ cIdx = NumCountries
  /\ CurUnit(state).status = "in_progress"

C8_IdempotentResume ==
  [][ lastExit = "clean" =>
        /\ disk' = disk
        /\ \A cp \in Countries \X Portals :
             /\ ~FetchesListing(cp[1], cp[2])
             /\ \A url \in Urls : ~FetchesItem(cp[1], cp[2], url)
    ]_vars

\* A run started after a clean exit has gone through both loops.
C8_Witness ==
  /\ lastExit = "clean"
  /\ pc = "crawl"
  /\ phaseLoop = "bachelors"
  /\ cIdx > NumCountries

\* C9: an item fetch is issued only for a URL that is not in the unit's
\* saved completed list.
C9_CompletedUrlNotRefetched ==
  [][ \A cp \in UnitsOf(Persisted) : \A url \in Urls :
        FetchesItem(cp[1], cp[2], url) =>
          ~includes(Unit(Persisted, cp[1], cp[2]).scrapedStudyUrls, url)
    ]_vars

\* A listing page showed a URL already completed, and the crawl went on to
\* the page's other URL.
C9_Witness ==
  /\ pc = "item_wait"
  /\ loc.result # <<>>
  /\ Len(loc.newUrls) < Len(loc.result[1].studyUrls)

ListingArrives == pc = "list_wait" /\ pc' \in {"item", "page_done"}

\* C11: when a listing page has been fetched, each of its item URLs that is
\* not in the unit's completed list is in the unit's saved pending queue, and
\* a URL that enters a pending queue is not in that unit's completed list.
C11_FoundUrlsEnqueued ==
  [][ /\ ListingArrives =>
           \A k \in 1..Len(loc'.result[1].studyUrls) :
             LET url == loc'.result[1].studyUrls[k]
             IN ~includes(CurUnit(Persisted').scrapedStudyUrls, url)
                  => includes(CurUnit(Persisted').studyUrlsQueue, url)
      /\ \A cp \in UnitsOf(Persisted') : \A url \in Urls :
           (/\ includes(Unit(Persisted', cp[1], cp[2]).studyUrlsQueue, url)
            /\ ~(/\ cp \in UnitsOf(Persisted)
                 /\ includes(Unit(Persisted, cp[1], cp[2]).studyUrlsQueue, url)))
             => ~includes(Unit(Persisted', cp[1], cp[2]).scrapedStudyUrls, url)
    ]_vars


\* The process is inside the page loop of its unit, working on listing page
\* loc.currentPageNum.
OnPage == pc \in {"page", "list_wait", "item", "item_wait", "count", "page_done"}

\* The process is killed.
KillStep == pc \notin {"idle", "done"} /\ pc' = "idle"

\* C12: when the process is killed while working on listing page N of a
\* unit, the state file it leaves makes the next run start that unit at
\* listing page N.
C12_ResumesAtInterruptedPage ==
  [][ KillStep /\ OnPage =>
        ResumePage(Persisted', cIdx, phaseLoop) = loc.currentPageNum
    ]_vars


PageExtracted ==
  /\ loc.result # <<>>
  /\ loc.result[1].studyUrls = extractStudyUrlsFromSearchPage(loc.currentPageNum)
  /\ loc.result[1].nextPageUrl # 0

\* crawlSearchPage has thrown and the page catch has run.
ListingFails == pc = "list_wait" /\ pc' \in {"page", "finish"}

\* C14: inside a unit the page counter moves from N to N+1 only when page N
\* was fetched and its links extracted; the saved cursor rises only at the
\* end of a fetched page that such a move led to; and a listing fetch that
\* throws moves neither the counter nor the saved cursor.
C14_CursorAdvancesAfterSuccess ==
  [][ /\ (OnPage /\ pc' \in {"page", "finish"}
            /\ loc'.currentPageNum # loc.currentPageNum)
           => /\ loc'.currentPageNum = loc.currentPageNum + 1
              /\ PageExtracted
      /\ \A cp \in UnitsOf(Persisted) :
           (/\ cp \in UnitsOf(Persisted')
            /\ Unit(Persisted', cp[1], cp[2]).currentPage
                 > Unit(Persisted, cp[1], cp[2]).currentPage)
             => /\ pc = "page_done" /\ cp = <<cIdx, phaseLoop>>
                /\ loc.result # <<>>
                /\ loc.pagesProcessed > 0
                /\ Unit(Persisted', cp[1], cp[2]).currentPage = loc.currentPageNum
      /\ ListingFails =>
           /\ loc'.currentPageNum = loc.currentPageNum
           /\ CurUnit(Persisted').currentPage = CurUnit(Persisted).currentPage
    ]_vars

\* Page 1 was fetched and led to page 2, whose fetch then threw: the loop
\* has ended on page 2 with the saved cursor still at 1.
C14_Witness ==
  /\ pc = "finish"
  /\ loc.error # "null"
  /\ loc.currentPageNum = 2
  /\ loc.pagesProcessed = 1
  /\ CurUnit(Persisted).currentPage = 1


\* The status of unit cp in store s; a unit not yet created is not_started.
StatusOf(s, cp) ==
  IF cp[1] \in DOMAIN s.countries THEN Unit(s, cp[1], cp[2]).status
  ELSE "not_started"

\* The status changes a step may make to a saved unit.
StatusMoves ==
  {<<"not_started", "in_progress">>, <<"in_progress", "completed">>,
   <<"in_progress", "error">>, <<"error", "in_progress">>}

Caught(e) == esc.pc = "caught" /\ esc.error = e

\* C16: when a step of a fetch has met a block, the next thing the fetch does
\* is to throw the failure to its caller: no further step is tried.
C16_BlockedShortCircuits ==
  [][ Caught("blocked") => esc'.pc = "thrown" /\ esc'.tried = esc.tried ]_vars

\* The step at position k of the steps tried is of browser b in mode m.
IsStep(k, b, m) == esc.tried[k].browser = b /\ esc.tried[k].mode = m

\* C17: when the first two steps tried for a URL met a challenge, they were
\* the first browser headless and its challenge solving; the third step, if
\* any, is the first browser's visible mode (the second browser is not tried
\* before it); and if that third step is clear, no fourth step is tried.
C17_LadderOrder ==
  (/\ Len(esc.tried) >= 2
   /\ esc.tried[1].met = "challenge"
   /\ esc.tried[2].met = "challenge")
    => /\ IsStep(1, firstBrowser(esc.kind), "headless")
       /\ IsStep(2, firstBrowser(esc.kind), "solve")
       /\ Len(esc.tried) >= 3 => IsStep(3, firstBrowser(esc.kind), "visible")
       /\ (Len(esc.tried) >= 3 /\ esc.tried[3].met = "clear")
            => Len(esc.tried) = 3

\* A fetch is in progress / has ended.
InFetch == esc.pc \notin {"idle", "returned", "thrown"}
FetchEnded == esc.pc \in {"returned", "thrown"}

\* No (browser, mode) step occurs twice among the steps tried.
NoStepTwice ==
  \A j, k \in 1..Len(esc.tried) :
    j # k => ~IsStep(j, esc.tried[k].browser, esc.tried[k].mode)

\* C18: no step of the ladder is tried twice for a URL, so at most as many
\* steps as there are (browser, mode) pairs are tried, and a fetch in progress ends, with a result
\* or with a thrown failure.
C18_FetchTerminates ==
  /\ [](NoStepTwice /\ Len(esc.tried) <= Cardinality(Browsers \X Modes))
  /\ InFetch ~> FetchEnded

\* A search-page fetch has gone through every step of both browsers and has
\* thrown.
C18_Witness ==
  /\ esc.pc = "thrown"
  /\ Len(esc.tried) = Cardinality(Browsers \X Modes)

\* C19: a timeout met while steps of the ladder remain (the second browser
\* has not been tried) is followed by a further step, not by giving the URL
\* up.
C19_TransientErrorRetried ==
  [][ Caught("timeout") /\ esc.browser = firstBrowser(esc.kind)
        => esc'.pc # "thrown" ]_vars

\* C20: a loaded page whose content has a block marker is classified blocked
\* by the detector and by the fetch, which throws the block, whatever the
\* page's title or other content.
C20_BlockedOverChallenge ==
  (esc.snap # <<>> /\ esc.snap[1].blocked)
    => /\ detectChallenge(esc.snap[1]) = "blocked"
       /\ inlineCheck(esc.snap[1]) = "blocked"
       /\ esc.pc \in {"caught", "thrown"}
       /\ esc.error = "blocked"


\* C21: when the scrape of an item URL has failed on every fallback, the
\* unit's saved lastError holds an error of that URL: it is neither empty nor
\* one of the errors of a listing fetch.
C21_FailedItemRecorded ==
  [][ ItemFailedStep =>
        CurUnit(Persisted').lastError \notin ({"null"} \cup Errors) ]_vars


\* ---------------------------------------------------------------------------
\* The state file under failing and interrupted writes.  saveState calls
\* fs.writeFileSync on the state file itself inside a try whose catch only
\* logs; the constructor of the next process calls loadState.
\* ---------------------------------------------------------------------------

\* The states one call of a saving mutator can leave in memory.
Mutations(s) ==
  {markStudyUrlScraped(s, c, p, url) :
     c \in StoreCountries, p \in Portals, url \in StoreUrls}
  \cup {updateCountryState(s, c, p, updates) :
          c \in StoreCountries, p \in Portals, updates \in StoreUpdates}

\* What a write of s that did not finish leaves of the file: the file was
\* opened for writing, which truncates it, and holds a prefix of the new text.
cut(s) == <<s, "cut">>

DiskFrame == UNCHANGED <<pc, phaseLoop, cIdx, loc, lastExit, failed, found, entered, esc, tools>>

\* A mutator whose writeFileSync succeeds.
WriteDone ==
  /\ state' \in Mutations(state)
  /\ disk' = saveState(state')
  /\ UNCHANGED faults
  /\ DiskFrame

\* A mutator whose writeFileSync throws (EACCES before the file is opened,
\* ENOSPC after it was truncated): the catch logs and the mutator returns.
WriteFails ==
  /\ faults < MaxFaults
  /\ state' \in Mutations(state)
  /\ disk' \in {disk, cut(state')}
  /\ faults' = faults + 1
  /\ DiskFrame

\* The process is killed inside writeFileSync; the next process loads the file.
KillInWrite ==
  /\ faults < MaxFaults
  /\ \E s \in Mutations(state) : disk' = cut(s)
  /\ state' = loadState(disk')
  /\ faults' = faults + 1
  /\ DiskFrame

\* The process is killed between two operations; the next process loads the file.
Restart ==
  /\ state' = loadState(disk)
  /\ UNCHANGED <<disk, faults>>
  /\ DiskFrame

NextDisk ==
  \/ WriteDone
  \/ WriteFails
  \/ KillInWrite
  \/ Restart

SpecDisk == Init /\ [][NextDisk]_vars

\* C22: once a change of the state has not reached the state file, the process
\* makes no further change: it has aborted, and only a new process follows.
C22_NoStepPastUnsavedChange ==
  [][ state # Persisted => ~(WriteDone \/ WriteFails \/ KillInWrite) ]_vars

\* C24: a kill leaves a file from which the next process loads every URL that
\* the file held as completed before: the state it starts with is the previous
\* or the new complete state, never less.
C24_FileNeverPartial ==
  [][ (KillInWrite \/ Restart) =>
        \A c \in DOMAIN Persisted.countries, p \in Portals, url \in StoreUrls :
          includes(Unit(Persisted, c, p).scrapedStudyUrls, url)
            => /\ c \in DOMAIN state'.countries
               /\ includes(Unit(state', c, p).scrapedStudyUrls, url) ]_vars

\* C25: a process that starts on a missing or a cut state file starts with
\* the fresh state (phase masters, no units), and the store operations that
\* follow leave a complete file that holds the state in memory.
C25_LoadNeverFails ==
  [][ /\ (KillInWrite \/ Restart) /\ Len(disk') # 1
        => state' = [currentPhase |-> "masters", countries |-> <<>>]
      /\ WriteDone => disk' = <<state'>> /\ 1 \in DOMAIN state'.countries ]_vars

C25_Witness ==
  /\ Len(disk) = 2
  /\ state = createFreshState
  /\ 1 \in DOMAIN disk[1].countries
  /\ Unit(disk[1], 1, "masters").scrapedStudyUrls # <<>>


\* The step issues a fetch, of a listing page or of an item page.
FetchIssued ==
  \/ pc = "page" /\ pc' = "list_wait"
  \/ pc = "item" /\ pc' = "item_wait"

Count(seq, x) == Cardinality({k \in 1..Len(seq) : seq[k] = x})

\* C26: in every state of the store and for every URL, marking the URL done a
\* second time gives the state that marking it once gave, in which the URL is
\* not pending and occurs exactly once in the completed list.
C26_MarkIdempotent ==
  \A c \in StoreCountries, p \in Portals, url \in StoreUrls :
    LET once == markStudyUrlScraped(state, c, p, url)
        twice == markStudyUrlScraped(once, c, p, url)
    IN /\ twice = once
       /\ ~includes(Unit(twice, c, p).studyUrlsQueue, url)
       /\ Count(Unit(twice, c, p).scrapedStudyUrls, url) = 1

\* URL 1 was pending and has been marked while URL 2 is still pending; both
\* a first mark (of 2) and a repeated mark (of 1) apply to this state.
C26_Witness ==
  /\ 1 \in DOMAIN state.countries
  /\ Unit(state, 1, "masters").scrapedStudyUrls = <<1>>
  /\ Unit(state, 1, "masters").studyUrlsQueue = <<2>>
  /\ markStudyUrlScraped(state, 1, "masters", 1) = state
  /\ markStudyUrlScraped(state, 1, "masters", 2) # state


\* C27: in every unit, after any sequence of enqueue calls with any argument
\* lists, no URL occurs twice in the pending queue.
C27_QueueHasNoDuplicates ==
  \A cp \in UnitsOf(state), url \in StoreUrls :
    Count(Unit(state, cp[1], cp[2]).studyUrlsQueue, url) <= 1


\* The place of x in a list that holds it.
Pos(seq, x) == CHOOSE k \in 1..Len(seq) : seq[k] = x

\* C28: inside a unit the page fetched after a page is the one that page
\* linked to, and page numbers never go down; when a listing fetch is issued
\* every item found new on the previous page has been fetched; and when an
\* item fetch is issued, the new items of the page stand in the order of the
\* listing, those before the fetched one are completed and the others are not.
C28_PageAndItemOrder ==
  [][ LET done == Unit(Persisted, cIdx, phaseLoop).scrapedStudyUrls
      IN /\ (pc = "page" /\ pc' = "list_wait" /\ loc.result # <<>>) =>
              /\ loc.searchUrl = loc.result[1].nextPageUrl
              /\ loc.i = Len(loc.newUrls) + 1
              /\ \A k \in 1..Len(loc.newUrls) : includes(done, loc.newUrls[k])
         /\ (OnPage /\ pc' \in {"page", "list_wait", "item", "item_wait",
                                "count", "page_done"}) =>
              /\ loc'.searchUrl \in {loc.searchUrl, loc.searchUrl + 1}
              /\ loc'.currentPageNum \in {loc.currentPageNum, loc.currentPageNum + 1}
         /\ (pc = "item" /\ pc' = "item_wait") =>
              /\ \A k, l \in 1..Len(loc.newUrls) :
                   k < l => Pos(loc.result[1].studyUrls, loc.newUrls[k])
                              < Pos(loc.result[1].studyUrls, loc.newUrls[l])
              /\ \A k \in 1..Len(loc.newUrls) :
                   k < loc.i <=> includes(done, loc.newUrls[k]) ]_vars

\* Page 2 of a unit is being fetched after both items of its page 1 were
\* fetched, in the order of the listing.
C28_Witness ==
  /\ pc = "list_wait"
  /\ loc.searchUrl = 2
  /\ loc.pagesProcessed = 1
  /\ Unit(Persisted, cIdx, phaseLoop).scrapedStudyUrls = <<1, 2>>


\* The step runs `await this.delay(this.config.requestDelay + Math.random() * 1000)`:
\* after a scraped item's count is saved, and before a following listing page.
Delays ==
  \/ pc = "count"
  \/ pc = "page_done" /\ loc.result[1].nextPageUrl # 0

\* A fetch has returned or thrown and the step arrives where the next fetch
\* of the unit is issued.
ArrivesAtFetch ==
  /\ pc \in {"list_wait", "item_wait", "count", "page_done"}
  /\ pc' \in {"page", "item"}

\* C29: inside a unit, every step that leads from a fetch that returned or
\* threw to the point where the next fetch is issued runs the delay of
\* requestDelay plus jitter.
C29_DelayBetweenFetches ==
  [][ ArrivesAtFetch => Delays ]_vars


\* A fetch has failed: crawlSearchPage threw or found no links, or
\* scrapeStudyPage threw; the process was not killed.
FetchFailed ==
  /\ pc \in {"list_wait", "item_wait"}
  /\ faults' = faults + 1
  /\ pc' # "idle"

\* C30: a failed fetch of a listing page or of an item leaves the process
\* inside its loops, and a run that is not killed ends only when every unit
\* of both phases is saved as completed.
C30_FailureNeverStopsRun ==
  /\ [][ FetchFailed => pc' \in {"page", "item", "page_done", "finish"} ]_vars
  /\ [](pc = "done" =>
          \A cp \in Countries \X Portals :
            /\ cp \in UnitsOf(Persisted)
            /\ Unit(Persisted, cp[1], cp[2]).status = "completed")

\* A run has ended in which an item fetch and a listing fetch failed.
C30_Witness ==
  /\ pc = "done"
  /\ failed # {}
  /\ \E cp \in UnitsOf(Persisted) : Unit(Persisted, cp[1], cp[2]).lastError # "null"
  /\ \A cp \in Countries \X Portals :
       /\ cp \in UnitsOf(Persisted)
       /\ Unit(Persisted, cp[1], cp[2]).status = "completed"


\* ---------------------------------------------------------------------------
\* show-progress.js: a process of its own that constructs a StateManager
\* (which loads the state file) and prints getProgressSummary().
\* ---------------------------------------------------------------------------

getProgressSummary(s) ==
  [phase |-> s.currentPhase,
   countries |->
     [c \in DOMAIN s.countries |->
        [p \in Portals |->
           [status |-> Unit(s, c, p).status,
            page |-> Unit(s, c, p).currentPage,
            programsExtracted |-> Unit(s, c, p).programsExtracted,
            queueSize |-> Len(Unit(s, c, p).studyUrlsQueue),
            scrapedCount |-> Len(Unit(s, c, p).scrapedStudyUrls)]]]]

\* What a reader of the state file can find: the file, or, while the crawler
\* is inside writeFileSync, the part of the new text written so far.
FileSeen == {disk, cut(state)}

ProgressFrame ==
  UNCHANGED <<pc, phaseLoop, cIdx, loc, faults, lastExit, failed, found, entered, esc,
              cap, req, bc, det, nav>>

\* Mutant: the progress command saves the state it has loaded.
ShowProgress_Saves ==
  /\ \E d \in FileSeen :
       /\ shown' = getProgressSummary(loadState(d))
       /\ disk' = saveState(loadState(d))
  /\ UNCHANGED state
  /\ ProgressFrame

\* `npm run progress`, at any moment of the crawl.
ShowProgress ==
  /\ \E d \in FileSeen : shown' = getProgressSummary(loadState(d))
  /\ UNCHANGED <<state, disk>>
  /\ ProgressFrame

\* The crawler changes and saves its state.
CrawlerSaves ==
  /\ WriteDone
  /\ UNCHANGED shown

NextProgress ==
  \/ CrawlerSaves
  \/ ShowProgress

SpecProgress == Init /\ [][NextProgress]_vars

\* C31: every unit of a printed progress summary carries that unit's
\* lastError.
C31_SummaryShowsLastError ==
  \A c \in DOMAIN shown.countries, p \in Portals :
    /\ "lastError" \in DOMAIN shown.countries[c][p]
    /\ \E e \in {"null"} \cup Errors : shown.countries[c][p].lastError = e

\* C32: a run of the progress command, at whatever moment of the crawl,
\* leaves the state file and the crawler's state as they were.
C32_ProgressReadsOnly ==
  [][ shown' # shown => disk' = disk /\ state' = state ]_vars

\* The progress command has run in the middle of a crawl: it printed the unit
\* in progress with one URL done, and the crawler has since completed a
\* second URL in the file.
C32_Witness ==
  /\ 1 \in DOMAIN shown.countries
  /\ shown.countries[1]["masters"].status = "in_progress"
  /\ shown.countries[1]["masters"].scrapedCount = 1
  /\ disk = saveState(state)
  /\ Unit(state, 1, "masters").status = "in_progress"
  /\ Unit(state, 1, "masters").scrapedStudyUrls = <<1, 2>>


\* ---------------------------------------------------------------------------
\* The captcha step of PlaywrightBaseCrawler.fetchPage: after the page has
\* loaded, CaptchaSolver.handleTurnstileCaptcha is tried when a Turnstile
\* widget is detected, and simulateHumanBehaviorForCloudflare is the fallback.
\* ---------------------------------------------------------------------------

\* Polls of 2captcha's res.php that fit into CAPTCHA_CONFIG.timeout.
MaxPolls == 3

\* What makes the solver workflow fail.
SolverFailures ==
  {"no_widget", "disabled", "submit_refused", "api_error", "timeout",
   "not_injected", "still_challenged", "screenshot"}

CapFrame == UNCHANGED <<batch, shown, req, bc, det, nav>>

\* Mutant: the workflow's catch throws the error on.
handleCatch_Rethrow(why) == "raised"

\* handleTurnstileCaptcha's `catch (error) { ...; return false; }`, and its
\* own `return false` statements.
handleCatch(why) == "false"

\* The workflow ends without a solution: fetchPage takes the fallback, both
\* for a returned false (440-443) and in its catch (445-450).
SolverFails(why) ==
  cap' = [cap EXCEPT !.pc = "simulate", !.solved = handleCatch(why), !.why = why]

\* fetchPage: the page has loaded; detectTurnstileCaptcha returns the widget's
\* site key, or null when there is none or when it threw.
CapDetect ==
  /\ cap.pc = "idle"
  /\ \E widget, title, threw \in BOOLEAN :
       cap' = [NoCap EXCEPT !.widget = widget, !.title = title,
                 !.pc = IF widget /\ ~threw THEN "handle"
                        ELSE IF title THEN "simulate" ELSE "content"]
  /\ CapFrame

\* handleTurnstileCaptcha, step 1: detect again.
CapHandle ==
  /\ cap.pc = "handle"
  /\ \/ cap' = [cap EXCEPT !.pc = "solve"]
     \/ SolverFails("no_widget")
  /\ CapFrame

\* solveTurnstile: the enabled test and the POST to in.php.
CapSolve ==
  /\ cap.pc = "solve"
  /\ \/ cap' = [cap EXCEPT !.pc = "poll", !.polls = 0]
     \/ \E why \in {"disabled", "submit_refused", "api_error"} : SolverFails(why)
  /\ CapFrame

\* solveTurnstile: one round of the polling loop, or its end by timeout.
CapPoll ==
  /\ cap.pc = "poll"
  /\ IF cap.polls < MaxPolls
     THEN \/ cap' = [cap EXCEPT !.pc = "submit"]
          \/ cap' = [cap EXCEPT !.polls = @ + 1]
          \/ SolverFails("api_error")
     ELSE SolverFails("timeout")
  /\ CapFrame

\* submitTurnstileSolution returns true or false.
CapSubmit ==
  /\ cap.pc = "submit"
  /\ \/ cap' = [cap EXCEPT !.pc = "verify"]
     \/ SolverFails("not_injected")
  /\ CapFrame

\* Step 5: the page is checked again; when the challenge is still there a
\* screenshot is written, which may throw.
CapVerify ==
  /\ cap.pc = "verify"
  /\ \/ cap' = [cap EXCEPT !.pc = "content", !.solved = "true"]
     \/ \E why \in {"still_challenged", "screenshot"} : SolverFails(why)
  /\ CapFrame

\* simulateHumanBehaviorForCloudflare.
CapSimulate ==
  /\ cap.pc = "simulate"
  /\ cap' = [cap EXCEPT !.pc = "content", !.simulated = TRUE]
  /\ CapFrame

\* The rest of fetchPage: the waits for content, and the html is returned.
CapContent ==
  /\ cap.pc = "content"
  /\ cap' = [cap EXCEPT !.pc = "returned"]
  /\ CapFrame

\* The next call of fetchPage.
CapNext ==
  /\ cap.pc = "returned"
  /\ cap' = NoCap
  /\ CapFrame

NextCap ==
  \/ CapDetect
  \/ CapHandle
  \/ CapSolve
  \/ CapPoll
  \/ CapSubmit
  \/ CapVerify
  \/ CapSimulate
  \/ CapContent
  \/ CapNext

SpecCap == Init /\ [][NextCap]_vars

\* C33: the solver workflow never raises: when it fails, for whatever reason,
\* it reports false and the fetch goes on with the human-behaviour simulation;
\* and a fetch whose solver failed returns its page after the simulation,
\* without an error.
C33_SolverBestEffort ==
  /\ [][ cap'.why # cap.why /\ cap'.why \in SolverFailures =>
           /\ cap'.solved = "false"
           /\ cap'.pc = "simulate"
           /\ cap'.error = "null" ]_vars
  /\ [](cap.pc = "returned" /\ cap.why \in SolverFailures =>
          cap.simulated /\ cap.error = "null" /\ cap.solved = "false")

\* A fetch has returned its page after the solver timed out.
C33_Witness ==
  /\ cap.pc = "returned"
  /\ cap.why = "timeout"
  /\ cap.polls = MaxPolls
  /\ cap.simulated


\* ---------------------------------------------------------------------------
\* BaseCrawler.fetchPage(url, retryCount = 0): an axios request, retried from
\* the catch by a recursive call.
\* ---------------------------------------------------------------------------

\* The largest maxRetries a configuration gives.
MaxConfigRetries == 2

retryDelay == 5000

\* What one request ends with: a status that validateStatus accepts (200),
\* a status it rejects, or no response at all (0).
Statuses == {200, 0, 403, 404, 429, 500, 503}

ReqFrame == UNCHANGED <<batch, shown, cap, bc, det, nav>>

\* Mutant: the delay grows by retryDelay per retry.
backoff_Linear(retryCount) == retryDelay * (retryCount + 1)

\* `this.retryDelay * Math.pow(2, retryCount)`
backoff(retryCount) == retryDelay * 2^retryCount

\* `statusCode === 403 || statusCode === 429 || statusCode === 503 || !error.response`
retryable(status) == status \in {403, 429, 503, 0}

\* new BaseCrawler(config): `this.maxRetries = config.maxRetries || 3`; then
\* fetchPage(url) is called.
ReqNew ==
  /\ req.pc \in {"none", "done"}
  /\ \E m \in 0..MaxConfigRetries :
       req' = [NoReq EXCEPT !.pc = "request", !.maxRetries = IF m = 0 THEN 3 ELSE m]
  /\ ReqFrame

\* One pass of fetchPage: the request, and on an error the catch.
ReqAttempt ==
  /\ req.pc = "request"
  /\ \E status \in Statuses :
       LET r1 == [req EXCEPT !.requests = @ + 1, !.log = Append(@, status)]
       IN IF status = 200
          THEN req' = [r1 EXCEPT !.pc = "done", !.outcome = "response"]
          ELSE IF req.retryCount < req.maxRetries /\ retryable(status)
          THEN req' = [r1 EXCEPT !.waits = Append(@, backoff(req.retryCount)),
                                 !.retryCount = @ + 1]
          ELSE req' = [r1 EXCEPT !.pc = "done", !.outcome = "raised"]
  /\ ReqFrame

NextReq ==
  \/ ReqNew
  \/ ReqAttempt

SpecReq == Init /\ [][NextReq]_vars

\* C34: a request is repeated only after status 403, 429, 503 or no
\* response, and only while fewer than maxRetries retries were made; the wait
\* before retry number k+1 is retryDelay * 2^k; at most maxRetries + 1 requests
\* are made; and the call raises exactly when a request failed that is not
\* repeated.
C34_RetryWithBackoff ==
  /\ [][ /\ req'.retryCount = req.retryCount + 1 =>
              /\ req'.log[Len(req'.log)] \in {403, 429, 503, 0}
              /\ req.retryCount < req.maxRetries
              /\ req'.waits = Append(req.waits, 5000 * 2^req.retryCount)
         /\ (req.pc = "request" /\ req'.outcome = "raised") =>
              /\ req'.log[Len(req'.log)] # 200
              /\ \/ req'.log[Len(req'.log)] \notin {403, 429, 503, 0}
                 \/ req.retryCount = req.maxRetries ]_vars
  /\ [](/\ req.requests <= req.maxRetries + 1
        /\ req.requests = req.retryCount + (IF req.pc = "done" THEN 1 ELSE 0)
        /\ Len(req.waits) = req.retryCount)

\* A call has raised after its first request and three retries, each after
\* a status that is retried.
C34_Witness ==
  /\ req.outcome = "raised"
  /\ req.maxRetries = 3
  /\ req.requests = 4
  /\ req.waits = <<5000, 10000, 20000>>
  /\ req.log = <<503, 429, 0, 403>>


\* ---------------------------------------------------------------------------
\* BaseCrawler.crawl / PlaywrightBaseCrawler.crawl: the loop over urlsToVisit.
\* ---------------------------------------------------------------------------

\* maxCrawlLength of the configuration.
MaxCrawlLength == 3

\* Links a page can show.
MaxLinks == 2

\* The URLs of the site: one more than a crawl may fetch.
BcUrls == 1..(MaxCrawlLength + 1)

\* The hrefs of one page, in document order; a page may repeat a link.
BcPages == UNION {[1..n -> BcUrls] : n \in 0..MaxLinks}

BcFrame == UNCHANGED <<batch, shown, cap, req, det, nav>>

\* url.startsWith(baseUrl) && !visitedUrls.has(url) && !urlsToVisit.includes(url)
shouldCrawlUrl(b, url) ==
  url \notin b.visitedUrls /\ ~includes(b.urlsToVisit, url)

\* extractLinks: every href is tested against the queue as it is before the
\* page's links are pushed.
extractLinks(b, hrefs) ==
  LET Wanted(url) == shouldCrawlUrl(b, url)
  IN SelectSeq(hrefs, Wanted)

\* Mutant: the loop never finds a URL visited.
visitedHas_Never(b, url) == FALSE

\* `this.visitedUrls.has(currentUrl)`
visitedHas(b, url) == url \in b.visitedUrls

\* One pass of the while loop up to the call of processPage.
BcShift ==
  /\ bc.pc = "loop"
  /\ Len(bc.urlsToVisit) > 0
  /\ bc.crawledCount < MaxCrawlLength
  /\ LET currentUrl == Head(bc.urlsToVisit)
         b1 == [bc EXCEPT !.urlsToVisit = Tail(@)]
     IN IF visitedHas(bc, currentUrl)
        THEN bc' = [b1 EXCEPT !.skipped = @ + 1]
        ELSE bc' = [b1 EXCEPT !.visitedUrls = @ \cup {currentUrl},
                              !.crawledCount = @ + 1,
                              !.currentUrl = currentUrl,
                              !.pc = "process"]
  /\ BcFrame

\* processPage: the page is fetched and its new links are pushed ...
BcProcess ==
  /\ bc.pc = "process"
  /\ \E hrefs \in BcPages :
       bc' = [bc EXCEPT !.fetched = Append(@, bc.currentUrl),
                        !.urlsToVisit = @ \o extractLinks(bc, hrefs),
                        !.pc = "loop"]
  /\ BcFrame

\* ... or fetchPage throws and the catch logs the error.
BcProcessFails ==
  /\ bc.pc = "process"
  /\ bc' = [bc EXCEPT !.fetched = Append(@, bc.currentUrl), !.pc = "loop"]
  /\ BcFrame

\* The loop ends and getResults is returned.
BcEnd ==
  /\ bc.pc = "loop"
  /\ ~(Len(bc.urlsToVisit) > 0 /\ bc.crawledCount < MaxCrawlLength)
  /\ bc' = [bc EXCEPT !.pc = "done"]
  /\ BcFrame

NextBc ==
  \/ BcShift
  \/ BcProcess
  \/ BcProcessFails
  \/ BcEnd

SpecBc == Init /\ [][NextBc]_vars

\* C35: during a crawl no URL is fetched twice, and a URL taken from the
\* queue that was visited before is not fetched.
C35_UrlProcessedOnce ==
  /\ [](\A url \in BcUrls : Count(bc.fetched, url) <= 1)
  /\ [][ (bc.pc = "loop" /\ bc'.pc = "process") =>
           ~includes(bc.fetched, bc'.currentUrl) ]_vars

\* URL 2 was queued twice by the page that repeated its link; it was fetched
\* once, and its second entry was taken from the queue and skipped.
C35_Witness ==
  /\ bc.fetched = <<1, 2>>
  /\ bc.skipped = 1
  /\ bc.urlsToVisit = <<>>
  /\ bc.pc = "done"


\* ---------------------------------------------------------------------------
\* CloudflareDetector.detectChallengeLoop(page, maxAttempts).
\* ---------------------------------------------------------------------------

\* The largest maxAttempts checked.
MaxAttempts == 4

\* The type detectChallenge finds at one check.
Types == {"none", "challenge", "blocked"}

\* What the page shows at the times of maxAttempts checks, one detectionInterval apart.
Timelines == UNION {[1..n -> Types] : n \in 1..MaxAttempts}

DetFrame == UNCHANGED <<batch, shown, cap, req, bc, nav>>

\* The `for` loop from pass i (counted from 0) with the attempts made so far.
RECURSIVE checkFrom(_, _, _)
checkFrom(obs, i, attempts) ==
  IF i >= Len(obs) THEN [loopDetected |-> FALSE, history |-> attempts]
  ELSE LET result == obs[i + 1]
           pushed == Append(attempts, result)
       IN IF result = "none"
          THEN [loopDetected |-> FALSE, history |-> pushed]
          ELSE IF i > 0 /\ pushed[i] = "none" /\ result = "challenge"
          THEN [loopDetected |-> TRUE, history |-> pushed]
          ELSE checkFrom(obs, i + 1, pushed)

\* maxAttempts is the length of the timeline.
detectChallengeLoop(obs) ==
  LET r == checkFrom(obs, 0, <<>>)
  IN [loopDetected |-> r.loopDetected,
      attempts |-> Len(r.history),
      lastStatus |-> r.history[Len(r.history)],
      history |-> r.history]

\* A page with its behaviour over the checks is handed to the detector.
DetNew ==
  /\ det.result # <<>> \/ det.obs = <<>>
  /\ \E obs \in Timelines : det' = [obs |-> obs, result |-> <<>>]
  /\ DetFrame

\* detectChallengeLoop runs and returns.
DetRun ==
  /\ det.obs # <<>>
  /\ det.result = <<>>
  /\ det' = [det EXCEPT !.result = <<detectChallengeLoop(det.obs)>>]
  /\ DetFrame

NextDet ==
  \/ DetNew
  \/ DetRun

SpecDet == Init /\ [][NextDet]_vars

\* The page shows a challenge, is then clear at one check and shows a
\* challenge at the next.
ChallengeAgain(obs) ==
  /\ obs[1] = "challenge"
  /\ \E i \in 2..Len(obs) : obs[i - 1] = "none" /\ obs[i] = "challenge"

\* C36: the result has loopDetected = TRUE whenever the page, within the
\* checks asked for, was clear and then showed a challenge again, and it has
\* loopDetected = FALSE with last status none when the page is clear.
C36_LoopDetected ==
  det.result # <<>> =>
    /\ ChallengeAgain(det.obs) => det.result[1].loopDetected
    /\ det.obs[1] = "none" =>
         ~det.result[1].loopDetected /\ det.result[1].lastStatus = "none"


\* programsExtracted of a unit in a state, 0 for a unit not created yet.
Extracted(s, cp) ==
  IF cp[1] \in DOMAIN s.countries THEN Unit(s, cp[1], cp[2]).programsExtracted ELSE 0

\* C37: in the state file, through kills and restarts, a unit's
\* programsExtracted never exceeds the length of its completed list; the
\* counter changes only by +1, only for the unit at work and only in the step
\* that follows a scrape that returned; that step always raises it; and the
\* step of a failed item leaves it as it is.
C37_ProgramsExtractedBounded ==
  /\ [](\A c \in DOMAIN Persisted.countries, p \in Portals :
          LET u == Unit(Persisted, c, p)
          IN u.programsExtracted <= Len(u.scrapedStudyUrls))
  /\ [][ LET old == [cp \in Countries \X Portals |-> Extracted(Persisted, cp)]
              new == [cp \in Countries \X Portals |-> Extracted(Persisted', cp)]
              counted == [old EXCEPT ![<<cIdx, phaseLoop>>] = @ + 1]
          IN IF pc = "count" /\ pc' # "idle"
               THEN new = counted
               ELSE disk' # disk => new = old ]_vars

\* After a kill and a restart, a unit has two completed URLs, one scraped and
\* counted, the other failed and not counted.
C37_Witness ==
  /\ lastExit = "killed"
  /\ pc = "page_done"
  /\ Len(CurUnit(Persisted).scrapedStudyUrls) = 2
  /\ CurUnit(Persisted).programsExtracted = 1
  /\ \E url \in Urls : <<cIdx, phaseLoop, url>> \in failed


C39_VisibleBrowserClosed ==
  esc.pc \in {"caught", "returned", "thrown"} => esc.visibleOpen = 0


\* ---------------------------------------------------------------------------
\* HardenedPlaywrightScraper.navigateWithEvasion (hardenedPlaywright.js 120-216)
\* ---------------------------------------------------------------------------

\* The largest maxRetries option tried.
MaxNavRetries == 3

\* options.maxChallengeAttempts || 5
maxChallengeAttempts == 5

NavFrame == UNCHANGED <<batch, shown, cap, req, bc, det>>

\* const backoffDelay = Math.min(30000, 5000 * Math.pow(2, attempt))
backoffDelay(attempt) ==
  IF 5000 * 2^attempt < 30000 THEN 5000 * 2^attempt ELSE 30000

\* HumanBehavior.waitForCloudflareChallenge(page, maxAttempts): the page stops
\* showing the challenge at round clearsAt; a round past maxAttempts is never
\* looked at.
waitForCloudflareChallenge(clearsAt, maxAttempts) ==
  [cleared |-> clearsAt <= maxAttempts,
   rounds |-> IF clearsAt <= maxAttempts THEN clearsAt ELSE maxAttempts]

\* The catch block (194-211) and the loop test that follows it; after the last
\* attempt the loop ends and 'Navigation failed after N attempts' is thrown.
NavCatch(n, message) ==
  [n EXCEPT
     !.lastError = message,
     !.attempt = @ + 1,
     !.waits = IF n.attempt + 1 < n.maxRetries
                 THEN Append(@, backoffDelay(n.attempt + 1)) ELSE @,
     !.pc = IF n.attempt + 1 < n.maxRetries THEN "navigate" ELSE "raised"]

\* A call: the scraper's options and the call's options are chosen.
NavNew ==
  /\ nav.pc = "none"
  /\ \E d \in BOOLEAN, w \in BOOLEAN, m \in 0..MaxNavRetries :
       nav' = [nav EXCEPT !.detectChallenge = d, !.waitForCloudflare = w,
                          !.maxRetries = m,
                          !.pc = IF 0 < m THEN "navigate" ELSE "raised"]
  /\ NavFrame

\* humanBehavior.navigate and waitForStability (138-145): they load the page or throw.
NavNavigate ==
  /\ nav.pc = "navigate"
  /\ \E loaded \in BOOLEAN :
       LET n == [nav EXCEPT !.navigations = @ + 1, !.lastDetect = "unset"] IN
       nav' = IF ~loaded THEN NavCatch(n, "navigation")
              ELSE [n EXCEPT !.pc = IF n.detectChallenge THEN "detect" ELSE "returned"]
  /\ NavFrame

\* detector.detectChallenge(page) and the branches on its result (148-160, 181-185).
NavDetect ==
  /\ nav.pc = "detect"
  /\ \E type \in Types :
       LET n == [nav EXCEPT !.lastDetect = type] IN
       nav' = CASE type = "none" -> [n EXCEPT !.pc = "returned"]
                [] type = "blocked" -> NavCatch(n, "blocked")
                [] OTHER -> [n EXCEPT !.pc = IF n.waitForCloudflare
                                               THEN "wait" ELSE "returned"]
  /\ NavFrame

\* waitForCloudflareChallenge and the test of its result (161-169).
NavWait ==
  /\ nav.pc = "wait"
  /\ \E clearsAt \in 1..(maxChallengeAttempts + 1) :
       LET r == waitForCloudflareChallenge(clearsAt, maxChallengeAttempts)
           n == [nav EXCEPT !.rounds = r.rounds] IN
       nav' = IF r.cleared THEN [n EXCEPT !.pc = "final"]
              ELSE NavCatch(n, "did not clear")
  /\ NavFrame

\* The final check (171-175).
NavFinal ==
  /\ nav.pc = "final"
  /\ \E type \in Types :
       LET n == [nav EXCEPT !.lastDetect = type] IN
       nav' = IF type # "none" THEN NavCatch(n, "reappeared")
              ELSE [n EXCEPT !.pc = "returned"]
  /\ NavFrame

\* The caller makes another call.
NavNext ==
  /\ nav.pc \in {"returned", "raised"}
  /\ nav' = NoNav
  /\ NavFrame

NextNav == NavNew \/ NavNavigate \/ NavDetect \/ NavWait \/ NavFinal \/ NavNext

SpecNav == Init /\ [][NextNav]_vars

\* C40: with challenge detection enabled, navigateWithEvasion returns the page
\* only when the last detection on it found neither a challenge nor a block;
\* it navigates at most maxRetries times, and it raises 'Navigation failed
\* after N attempts' only after maxRetries failed attempts.
C40_ReturnsOnlyClearPage ==
  /\ (nav.pc = "returned" /\ nav.detectChallenge) => nav.lastDetect = "none"
  /\ nav.navigations <= nav.maxRetries
  /\ nav.pc = "raised" => nav.attempt = nav.maxRetries
  /\ (nav.pc = "navigate" /\ nav.attempt > 0) => nav.attempt < nav.maxRetries

====
